---- MODULE Spec2Model ----
(***************************************************************************)
(* A model of xvc::XVector<T> (src/include/xvc/XVector.h): two sequence    *)
(* objects over one heap of raw blocks.  Every public operation is one     *)
(* action; its loops are computed in closed form from the index at which   *)
(* an element constructor throws.  size_t arithmetic is modulo 2^WordBits. *)
(* The older dynamicArray<T> (src/dynamicArray.tpp) is modelled over the   *)
(* same heap, under a specification of its own.                            *)
(***************************************************************************)
EXTENDS Integers, Sequences, FiniteSets, TLC

\* ------------------------------------------------------------- bounds ---
WordBits  == 4     \* width of size_t in the model
MaxAlloc  == 2     \* memory limit (elements per block) with two sequences
SoloAlloc == 4     \* memory limit with one sequence
MaxVal    == 2     \* element values are 1..MaxVal
NumAddr   == 3     \* addresses the allocator hands out
MaxInit   == 2     \* longest initializer list a caller passes
MaxFill   == 8     \* longest buffer handed to fillTrivial

Word    == 2 ^ WordBits
SizeMax == Word - 1
Vals    == 1..MaxVal
Addr    == 1..NumAddr
Vecs    == {"a", "b"}

\* ------------------------------------------------------ slot contents ---
Raw     == -1      \* storage that holds no element
Moved   == 0       \* a constructed element that has been moved from
nullptr == 0

\* T: the element type; mem: the largest block ::operator new can supply;
\* vec: the members of each sequence object; heap: the blocks; fault: the
\* undefined behaviour the run has met; last: the call that just returned.
VARIABLES T, mem, vec, heap, fault, last

vars == <<T, mem, vec, heap, fault, last>>

\* ----------------------------------------------------- element traits ---
Types == {"trivial", "string", "throwing"}

is_trivially_copyable_v         == T = "trivial"
is_nothrow_move_constructible_v == T \in {"trivial", "string"}
is_nothrow_copy_constructible_v == T = "trivial"
is_trivially_destructible_v     == T = "trivial"

\* What goes wrong during one call: nothing, the allocation, or the at-th
\* move construction, copy construction or copy assignment of an element.
\* A call ends at its first exception, so one failure point describes it.
NoFail == [kind |-> "none", at |-> 0]
Plans ==
    {NoFail, [kind |-> "alloc", at |-> 0]}
    \cup (IF is_nothrow_move_constructible_v THEN {}
          ELSE {[kind |-> "move", at |-> i] : i \in 0..(mem - 1)})
    \cup (IF is_nothrow_copy_constructible_v THEN {}
          ELSE {[kind |-> k, at |-> i] : k \in {"copy", "assign"}, i \in 0..(mem - 1)})

\* how many of n constructions of the given kind succeed under plan F
Done(F, kind, n) == IF F.kind = kind /\ F.at < n THEN F.at ELSE n

\* the size arguments a caller passes
SizeArgs == (0..(mem + 1)) \cup {SizeMax}

\* --------------------------------------------------------- arithmetic ---
Min2(x, y) == IF x <= y THEN x ELSE y
MinOf(S)   == CHOOSE x \in S : \A y \in S : x <= y

RECURSIVE BitOr(_, _)
BitOr(x, y) ==
    IF x = 0 THEN y
    ELSE IF y = 0 THEN x
    ELSE (IF x % 2 = 1 \/ y % 2 = 1 THEN 1 ELSE 0) + 2 * BitOr(x \div 2, y \div 2)

RECURSIVE Shr(_, _)
Shr(x, k) == IF k = 0 \/ x = 0 THEN x ELSE Shr(x \div 2, k - 1)

\* n |= n >> k
Smear(n, k) == BitOr(n, Shr(n, k))

nextPowerOf2(n) ==
    IF n <= 1 THEN 1
    ELSE (Smear(Smear(Smear(Smear(Smear(Smear(n - 1, 1), 2), 4), 8), 16), 32) + 1) % Word

\* -------------------------------------------------------- fillTrivial ---
\* the chunk of one round, had it been the whole filled prefix
chunk_whole_prefix(filled, count) == filled

\* const size_t chunk = std::min(filled, count - filled);
chunk(filled, count) == Min2(filled, count - filled)

\* while (filled < count) { memcpy(dest + filled, dest, chunk * sizeof(T));
\* filled += chunk; }   st.dest is the storage at dest, st.copies counts the
\* memcpy calls, st.safe tells that every memcpy so far read only slots
\* already filled and wrote inside the storage
RECURSIVE fillLoop(_, _)
fillLoop(st, count) ==
    IF ~(st.filled < count) THEN st
    ELSE fillLoop([dest   |-> [j \in 1..Len(st.dest) |->
                                 IF st.filled < j /\ j <= st.filled + chunk(st.filled, count)
                                 THEN (IF j - st.filled <= Len(st.dest)
                                       THEN st.dest[j - st.filled] ELSE Raw)
                                 ELSE st.dest[j]],
                   filled |-> st.filled + chunk(st.filled, count),
                   copies |-> st.copies + 1,
                   safe   |-> /\ st.safe
                              /\ chunk(st.filled, count) <= st.filled
                              /\ st.filled + chunk(st.filled, count) <= Len(st.dest)],
                  count)

\* fillTrivial(dest, count, value), dest being storage of Len(dest) slots
fillTrivial(dest, count, value) ==
    IF count = 0 THEN [dest |-> dest, filled |-> 0, copies |-> 0, safe |-> TRUE]
    ELSE fillLoop([dest   |-> [j \in 1..Len(dest) |-> IF j = 1 THEN value ELSE dest[j]],
                   filled |-> 1, copies |-> 1, safe |-> Len(dest) >= 1],
                  count)

\* --------------------------------------------------------------- heap ---
\* fresh: the block was handed out by ::operator new during the last call
FreeBlock == [live |-> FALSE, fresh |-> FALSE, slots |-> <<>>]
Block(n)  == [live |-> TRUE, fresh |-> TRUE, slots |-> [j \in 1..n |-> Raw]]
NoVec     == [alive |-> FALSE, size_ |-> 0, capacity_ |-> 0, data_ |-> nullptr]

Live(h, p)  == p \in Addr /\ h[p].live
Slots(h, p) == IF p \in Addr THEN h[p].slots ELSE <<>>
Peek(h, p, i) == IF i + 1 \in DOMAIN Slots(h, p) THEN Slots(h, p)[i + 1] ELSE Raw

InBounds(h, p, n) == n = 0 \/ (Live(h, p) /\ n <= Len(h[p].slots))
Constructed(h, p, lo, hi) == \A i \in lo..(hi - 1) : Peek(h, p, i) # Raw
\* elements [lo, hi) of block p can be read as objects of type T
Readable(h, p, lo, hi) ==
    hi <= lo \/ (InBounds(h, p, hi)
                 /\ (is_trivially_copyable_v \/ Constructed(h, p, lo, hi)))
\* the destructor loop over [lo, hi) is defined
Destroyable(h, p, lo, hi) ==
    is_trivially_destructible_v \/ hi <= lo
    \/ (InBounds(h, p, hi) /\ Constructed(h, p, lo, hi))
\* ::operator delete(p) is defined: p is null or a block not yet released
Deletable(h, p) == p = nullptr \/ Live(h, p)

\* ::operator new(n * sizeof(T)): the address of a fresh block, or nullptr
\* when the allocation throws std::bad_alloc.  A released block that a
\* sequence still points to is not handed out again.
operator_new(S, n, F) ==
    LET free == {p \in Addr : ~S.heap[p].live
                              /\ \A v \in Vecs : S.vec[v].data_ # p}
    IN IF F.kind # "alloc" /\ n <= mem /\ free # {} THEN MinOf(free) ELSE nullptr

operator_delete(h, p) == IF p \in Addr THEN [h EXCEPT ![p] = FreeBlock] ELSE h

\* slot i of block p becomes f[i], for i in [lo, hi)
WriteRange(h, p, lo, hi, f) ==
    IF hi <= lo \/ ~Live(h, p) THEN h
    ELSE [h EXCEPT ![p].slots =
             [j \in 1..Len(@) |-> IF lo <= j - 1 /\ j - 1 < hi THEN f[j - 1] ELSE @[j]]]

\* the copy loop, had it written from the start of dst
CopyRange_at_front(h, src, soff, dst, doff, n) ==
    WriteRange(h, dst, 0, n, [i \in 0..(n - 1) |-> Peek(h, src, soff + i)])

\* new (&dst[doff + i]) T(src[soff + i]) for i in [0, n); also memcpy, memmove
CopyRange(h, src, soff, dst, doff, n) ==
    WriteRange(h, dst, doff, doff + n,
               [i \in doff..(doff + n - 1) |-> Peek(h, src, soff + (i - doff))])

\* new (&dst[i]) T(std::move(src[i])) for i in [0, n): the source elements
\* stay constructed and are left moved-from
MoveRange(h, src, dst, n) ==
    WriteRange(CopyRange(h, src, 0, dst, 0, n), src, 0, n, [i \in 0..(n - 1) |-> Moved])

\* memcpy(dst, src, n * sizeof(T)) for trivially copyable T, else the move loop
Relocate(h, src, dst, n) ==
    IF is_trivially_copyable_v THEN CopyRange(h, src, 0, dst, 0, n)
    ELSE MoveRange(h, src, dst, n)

\* new (&p[i]) T(value) for i in [lo, hi); fillTrivial for trivially copyable T
FillRange(h, p, lo, hi, value) ==
    WriteRange(h, p, lo, hi, [i \in lo..(hi - 1) |-> value])

\* p[i].~T() for i in [lo, hi).  For a trivially destructible T the code
\* runs nothing; the slots are plain storage again all the same.
DestroyRange(h, p, lo, hi) ==
    WriteRange(h, p, lo, hi, [i \in lo..(hi - 1) |-> Raw])

\* ------------------------------------------------------------ results ---
\* made: the elements the call constructed before an element constructor
\* threw; undone: the destructor calls its handler made, in the order made
Ok(vs, h)       == [vec |-> vs, heap |-> h, res |-> "ok", fault |-> "none", ret |-> 0,
                    made |-> <<>>, undone |-> <<>>]
Throw(vs, h, e) == [vec |-> vs, heap |-> h, res |-> e, fault |-> "none", ret |-> 0,
                    made |-> <<>>, undone |-> <<>>]
\* slots [lo, hi) of a buffer of the call, in ascending order
Span(buf, lo, hi) == [j \in 1..(hi - lo) |-> <<buf, lo + j - 1>>]
\* if constexpr (!std::is_trivially_destructible_v<T>)
\*     for (size_t j = lo; j < hi; ++j) buf[j].~T();
Dtors(buf, lo, hi) == IF is_trivially_destructible_v THEN <<>> ELSE Span(buf, lo, hi)
\* the exception went through a handler
Caught(vs, h, e, made, undone) == [Throw(vs, h, e) EXCEPT !.made = made, !.undone = undone]
\* r is what the straight-line code leaves behind; if an access it made was
\* undefined, the run is marked and not followed further
Checked(r, safe, kind) == IF safe THEN r ELSE [r EXCEPT !.res = "ub", !.fault = kind]

\* --------------------------------------------------------- reallocate ---
reallocate(S, v, doubleCap, F) ==
    LET me      == S.vec[v]
        n       == me.size_
        newCap  == IF doubleCap
                   THEN (IF me.capacity_ # 0 THEN (me.capacity_ * 2) % Word ELSE 1)
                   ELSE nextPowerOf2(n)
        newData == operator_new(S, newCap, F)
        h1      == [S.heap EXCEPT ![newData] = Block(newCap)]
        k       == IF is_nothrow_move_constructible_v THEN n ELSE Done(F, "move", n)
    IN IF newData = nullptr THEN Throw(S.vec, S.heap, "bad_alloc")
       ELSE IF k < n
       THEN \* the move constructor threw at index k: unwind newData
            LET h2 == MoveRange(h1, me.data_, newData, k)
                h3 == IF is_trivially_destructible_v THEN h2
                      ELSE DestroyRange(h2, newData, 0, k)
            IN Checked(Caught(S.vec, operator_delete(h3, newData), "move",
                              Span("newData", 0, k), Dtors("newData", 0, k)),
                       Readable(S.heap, me.data_, 0, k + 1) /\ k <= newCap, "oob")
       ELSE LET h2 == Relocate(h1, me.data_, newData, n)
                h3 == DestroyRange(h2, me.data_, 0, n)
                h4 == operator_delete(h3, me.data_)
            IN Checked(Ok([S.vec EXCEPT ![v].data_ = newData, ![v].capacity_ = newCap], h4),
                       Readable(S.heap, me.data_, 0, n) /\ n <= newCap
                       /\ Deletable(S.heap, me.data_), "oob")

\* ------------------------------------------- constructors, destructor ---
\* XVector(), had it started with two slots
XVector_default_two_slots(S, v, F) ==
    LET p == operator_new(S, 2, F)
    IN IF p = nullptr THEN Throw(S.vec, S.heap, "bad_alloc")
       ELSE Ok([S.vec EXCEPT ![v] = [alive |-> TRUE, size_ |-> 0, capacity_ |-> 2, data_ |-> p]],
               [S.heap EXCEPT ![p] = Block(2)])

XVector_default(S, v, F) ==
    LET p == operator_new(S, 1, F)
    IN IF p = nullptr THEN Throw(S.vec, S.heap, "bad_alloc")
       ELSE Ok([S.vec EXCEPT ![v] = [alive |-> TRUE, size_ |-> 0, capacity_ |-> 1, data_ |-> p]],
               [S.heap EXCEPT ![p] = Block(1)])

XVector_dtor(S, v) ==
    LET me == S.vec[v]
    IN Checked(Ok([S.vec EXCEPT ![v] = NoVec],
                  operator_delete(DestroyRange(S.heap, me.data_, 0, me.size_), me.data_)),
               Destroyable(S.heap, me.data_, 0, me.size_) /\ Deletable(S.heap, me.data_),
               "bad_free")

\* XVector(size_t count, const T& value)
XVector_count(S, v, count, value, F) ==
    LET cap == nextPowerOf2(count)
        p   == operator_new(S, cap, F)
        h1  == [S.heap EXCEPT ![p] = Block(cap)]
        k   == IF is_nothrow_copy_constructible_v THEN count ELSE Done(F, "copy", count)
    IN IF p = nullptr THEN Throw(S.vec, S.heap, "bad_alloc")
       ELSE IF k < count
       THEN LET h2 == DestroyRange(FillRange(h1, p, 0, k, value), p, 0, k)
            IN Checked(Caught(S.vec, operator_delete(h2, p), "copy",
                              Span("data_", 0, k), Dtors("data_", 0, k)), k <= cap, "oob")
       ELSE Checked(Ok([S.vec EXCEPT ![v] = [alive |-> TRUE, size_ |-> count,
                                             capacity_ |-> cap, data_ |-> p]],
                       FillRange(h1, p, 0, count, value)),
                    count <= cap, "oob")

\* XVector(std::initializer_list<T> init), and XVector(T (&a)[N])
XVector_init(S, v, init, F) ==
    LET n   == Len(init)
        cap == nextPowerOf2(n)
        p   == operator_new(S, cap, F)
        h1  == [S.heap EXCEPT ![p] = Block(cap)]
        k   == IF is_trivially_copyable_v THEN n ELSE Done(F, "copy", n)
        El  == [i \in 0..(n - 1) |-> init[i + 1]]
    IN IF p = nullptr THEN Throw(S.vec, S.heap, "bad_alloc")
       ELSE IF k < n
       THEN LET h2 == DestroyRange(WriteRange(h1, p, 0, k, El), p, 0, k)
            IN Caught(S.vec, operator_delete(h2, p), "copy",
                      Span("data_", 0, k), Dtors("data_", 0, k))
       ELSE Ok([S.vec EXCEPT ![v] = [alive |-> TRUE, size_ |-> n,
                                     capacity_ |-> cap, data_ |-> p]],
               WriteRange(h1, p, 0, n, El))

\* XVector(const XVector& other), had it taken other's buffer for its own
XVector_copy_shallow(S, v, o, F) ==
    Ok([S.vec EXCEPT ![v] = [alive |-> TRUE, size_ |-> S.vec[o].size_,
                             capacity_ |-> S.vec[o].capacity_, data_ |-> S.vec[o].data_]],
       S.heap)

\* XVector(const XVector& other)
XVector_copy(S, v, o, F) ==
    LET other == S.vec[o]
        n   == other.size_
        p   == operator_new(S, other.capacity_, F)
        h1  == [S.heap EXCEPT ![p] = Block(other.capacity_)]
        k   == IF is_nothrow_copy_constructible_v THEN n ELSE Done(F, "copy", n)
    IN IF p = nullptr THEN Throw(S.vec, S.heap, "bad_alloc")
       ELSE IF k < n
       THEN LET h2 == DestroyRange(CopyRange(h1, other.data_, 0, p, 0, k), p, 0, k)
            IN Checked(Caught(S.vec, operator_delete(h2, p), "copy",
                              Span("data_", 0, k), Dtors("data_", 0, k)),
                       Readable(S.heap, other.data_, 0, k + 1) /\ k <= other.capacity_, "oob")
       ELSE Checked(Ok([S.vec EXCEPT ![v] = [alive |-> TRUE, size_ |-> n,
                                             capacity_ |-> other.capacity_, data_ |-> p]],
                       CopyRange(h1, other.data_, 0, p, 0, n)),
                    Readable(S.heap, other.data_, 0, n) /\ n <= other.capacity_, "oob")

\* XVector(XVector&& other) noexcept
XVector_move(S, v, o) ==
    LET other == S.vec[o]
    IN Ok([S.vec EXCEPT ![v] = [alive |-> TRUE, size_ |-> other.size_,
                                capacity_ |-> other.capacity_, data_ |-> other.data_],
                        ![o] = [alive |-> TRUE, size_ |-> 0, capacity_ |-> 0,
                                data_ |-> nullptr]],
          S.heap)

\* ------------------------------------------------------- assignment ---
\* operator=(const XVector& other), had it always destroyed *this and copied
\* other into a buffer of its own
copy_assign_by_copy(S, v, o, F) ==
    IF v = o THEN Ok(S.vec, S.heap)
    ELSE XVector_copy([vec  |-> XVector_dtor(S, v).vec,
                       heap |-> XVector_dtor(S, v).heap], v, o, F)

\* operator=(const XVector& other)
copy_assign(S, v, o, F) ==
    LET me    == S.vec[v]
        other == S.vec[o]
        n     == other.size_
        h     == S.heap
    IN IF v = o THEN Ok(S.vec, h)
       ELSE IF n <= me.capacity_
       THEN \* in place
          IF is_trivially_copyable_v
          THEN Checked(Ok([S.vec EXCEPT ![v].size_ = n],
                          CopyRange(h, other.data_, 0, me.data_, 0, n)),
                       Readable(h, other.data_, 0, n) /\ InBounds(h, me.data_, n), "oob")
          ELSE LET m  == Min2(me.size_, n)
                   ka == Done(F, "assign", m)
                   kc == IF is_nothrow_copy_constructible_v THEN n - m
                         ELSE Done(F, "copy", n - m)
               IN IF ka < m
                  THEN \* data_[ka] = other.data_[ka] threw; nothing catches it here
                       Checked(Throw(S.vec, CopyRange(h, other.data_, 0, me.data_, 0, ka),
                                     "assign"),
                               Readable(h, other.data_, 0, ka + 1)
                               /\ Readable(h, me.data_, 0, ka + 1), "oob")
                  ELSE IF kc < n - m
                  THEN \* new (&data_[m + kc]) T(...) threw: the handler destroys
                       \* [0, size_) and releases data_, and leaves the members alone
                       LET h2 == CopyRange(h, other.data_, 0, me.data_, 0, m + kc)
                           h3 == IF is_trivially_destructible_v THEN h2
                                 ELSE DestroyRange(h2, me.data_, 0, me.size_)
                       IN Checked(Caught(S.vec, operator_delete(h3, me.data_), "copy",
                                         Span("data_", m, m + kc), Dtors("data_", 0, me.size_)),
                                  Readable(h, other.data_, 0, m + kc + 1)
                                  /\ Readable(h, me.data_, 0, m)
                                  /\ InBounds(h, me.data_, m + kc + 1)
                                  /\ Deletable(h, me.data_), "oob")
                  ELSE Checked(Ok([S.vec EXCEPT ![v].size_ = n],
                                  CopyRange(h, other.data_, 0, me.data_, 0, n)),
                               Readable(h, other.data_, 0, n) /\ Readable(h, me.data_, 0, m)
                               /\ InBounds(h, me.data_, n), "oob")
       ELSE \* fresh allocation
          LET newData == operator_new(S, other.capacity_, F)
              h1 == [h EXCEPT ![newData] = Block(other.capacity_)]
              k  == IF is_nothrow_copy_constructible_v THEN n ELSE Done(F, "copy", n)
          IN IF newData = nullptr THEN Throw(S.vec, h, "bad_alloc")
             ELSE IF k < n
             THEN LET h2 == DestroyRange(CopyRange(h1, other.data_, 0, newData, 0, k),
                                         newData, 0, k)
                  IN Checked(Caught(S.vec, operator_delete(h2, newData), "copy",
                                    Span("newData", 0, k), Dtors("newData", 0, k)),
                             Readable(h, other.data_, 0, k + 1) /\ k <= other.capacity_,
                             "oob")
             ELSE LET h2 == CopyRange(h1, other.data_, 0, newData, 0, n)
                      h3 == DestroyRange(h2, me.data_, 0, me.size_)
                      h4 == operator_delete(h3, me.data_)
                  IN Checked(Ok([S.vec EXCEPT ![v].data_ = newData, ![v].size_ = n,
                                              ![v].capacity_ = other.capacity_], h4),
                             Readable(h, other.data_, 0, n) /\ n <= other.capacity_
                             /\ Destroyable(h, me.data_, 0, me.size_)
                             /\ Deletable(h, me.data_), "oob")

\* operator=(XVector&& other) noexcept, had it copied other's members and
\* left other as it was
move_assign_keeps_source(S, v, o) ==
    LET me    == S.vec[v]
        other == S.vec[o]
        h1    == operator_delete(DestroyRange(S.heap, me.data_, 0, me.size_), me.data_)
    IN IF v = o THEN Ok(S.vec, S.heap)
       ELSE Checked(Ok([S.vec EXCEPT ![v].size_ = other.size_,
                                     ![v].capacity_ = other.capacity_,
                                     ![v].data_ = other.data_], h1),
                    Destroyable(S.heap, me.data_, 0, me.size_) /\ Deletable(S.heap, me.data_),
                    "bad_free")

\* operator=(XVector&& other) noexcept
move_assign(S, v, o) ==
    LET me    == S.vec[v]
        other == S.vec[o]
        h1    == operator_delete(DestroyRange(S.heap, me.data_, 0, me.size_), me.data_)
    IN IF v = o THEN Ok(S.vec, S.heap)
       ELSE Checked(Ok([S.vec EXCEPT ![v].size_ = other.size_,
                                     ![v].capacity_ = other.capacity_,
                                     ![v].data_ = other.data_,
                                     ![o].size_ = 0, ![o].capacity_ = 0,
                                     ![o].data_ = nullptr], h1),
                    Destroyable(S.heap, me.data_, 0, me.size_) /\ Deletable(S.heap, me.data_),
                    "bad_free")

\* ------------------------------------------------------ element access ---
\* at(idx), had it compared with > where the code compares with >=
at_off_by_one(S, v, idx) ==
    LET me == S.vec[v]
    IN IF idx > me.size_ THEN Throw(S.vec, S.heap, "out_of_range")
       ELSE Checked([Ok(S.vec, S.heap) EXCEPT !.ret = Peek(S.heap, me.data_, idx)],
                    Readable(S.heap, me.data_, idx, idx + 1), "oob")

at(S, v, idx) ==
    LET me == S.vec[v]
    IN IF idx >= me.size_ THEN Throw(S.vec, S.heap, "out_of_range")
       ELSE Checked([Ok(S.vec, S.heap) EXCEPT !.ret = Peek(S.heap, me.data_, idx)],
                    Readable(S.heap, me.data_, idx, idx + 1), "oob")

\* ----------------------------------------------------------- modifiers ---
\* the common body of append(const T&), append(T&&) and emplace_back(args):
\* ctorThrows tells whether constructing the new element throws
\* new (&data_[size_]) T(...); ++size_;  r is what the growth step left
construct_at_end(r, v, item, ctorThrows) ==
    LET me == r.vec[v]
    IN IF r.res # "ok" THEN r
       ELSE IF ctorThrows
       THEN Checked(Throw(r.vec, r.heap, "ctor"),
                    InBounds(r.heap, me.data_, me.size_ + 1), "oob")
       ELSE Checked(Ok([r.vec EXCEPT ![v].size_ = (me.size_ + 1) % Word],
                       FillRange(r.heap, me.data_, me.size_, me.size_ + 1, item)),
                    InBounds(r.heap, me.data_, me.size_ + 1), "oob")

\* the growth test of append, had it been size_ + 1 >= capacity_
push_grows_early(S, v, item, F, ctorThrows) ==
    construct_at_end(IF S.vec[v].size_ + 1 >= S.vec[v].capacity_
                     THEN reallocate(S, v, TRUE, F)
                     ELSE Ok(S.vec, S.heap),
                     v, item, ctorThrows)

push(S, v, item, F, ctorThrows) ==
    construct_at_end(IF S.vec[v].size_ >= S.vec[v].capacity_
                     THEN reallocate(S, v, TRUE, F)
                     ELSE Ok(S.vec, S.heap),
                     v, item, ctorThrows)

\* append(const T& item): T(item) is a copy construction
append(S, v, item, F) == push(S, v, item, F, F.kind = "copy")

\* append(T&& item): T(std::move(item)) is the move construction that follows
\* the moves reallocate(true) made
append_rv(S, v, item, F) ==
    LET moves == IF S.vec[v].size_ >= S.vec[v].capacity_
                    /\ ~is_trivially_copyable_v THEN S.vec[v].size_ ELSE 0
    IN push(S, v, item, F, F.kind = "move" /\ F.at = moves)

\* emplace_back(Args&&... args): T(args...) may throw as a copy construction may
emplace_back(S, v, item, F) == push(S, v, item, F, F.kind = "copy")

pop_back(S, v) ==
    LET me == S.vec[v]
        sz == (me.size_ - 1) % Word
        vs == [S.vec EXCEPT ![v].size_ = sz]
    IN \* XVECTOR_EMPTY_CHECK() is ((void)0) without DEBUG: on size_ = 0 the
       \* decrement wraps
       Checked(Ok(vs, DestroyRange(S.heap, me.data_, sz, sz + 1)),
               Destroyable(S.heap, me.data_, sz, sz + 1), "oob")

\* clear(), had it left size_ as it was
clear_keeps_length(S, v) ==
    LET me == S.vec[v]
    IN Checked(Ok(S.vec, DestroyRange(S.heap, me.data_, 0, me.size_)),
               Destroyable(S.heap, me.data_, 0, me.size_), "oob")

clear(S, v) ==
    LET me == S.vec[v]
    IN Checked(Ok([S.vec EXCEPT ![v].size_ = 0], DestroyRange(S.heap, me.data_, 0, me.size_)),
               Destroyable(S.heap, me.data_, 0, me.size_), "oob")

swap(S, v, o) ==
    Ok([S.vec EXCEPT ![v].data_ = S.vec[o].data_, ![o].data_ = S.vec[v].data_,
                     ![v].size_ = S.vec[o].size_, ![o].size_ = S.vec[v].size_,
                     ![v].capacity_ = S.vec[o].capacity_,
                     ![o].capacity_ = S.vec[v].capacity_],
       S.heap)

reserve(S, v, space, F) ==
    LET me      == S.vec[v]
        n       == me.size_
        newCap  == nextPowerOf2(space)
        newData == operator_new(S, newCap, F)
        h1      == [S.heap EXCEPT ![newData] = Block(newCap)]
        k       == IF is_nothrow_move_constructible_v THEN n ELSE Done(F, "move", n)
    IN IF ~(space > me.capacity_) THEN Ok(S.vec, S.heap)
       ELSE IF newData = nullptr THEN Throw(S.vec, S.heap, "bad_alloc")
       ELSE IF k < n
       THEN LET h2 == MoveRange(h1, me.data_, newData, k)
                h3 == DestroyRange(h2, newData, 0, k)
            IN Checked(Caught(S.vec, operator_delete(h3, newData), "move",
                              Span("newData", 0, k), Dtors("newData", 0, k)),
                       Readable(S.heap, me.data_, 0, k + 1) /\ k <= newCap, "oob")
       ELSE LET h2 == Relocate(h1, me.data_, newData, n)
                h3 == DestroyRange(h2, me.data_, 0, n)
                h4 == operator_delete(h3, me.data_)
            IN Checked(Ok([S.vec EXCEPT ![v].data_ = newData, ![v].capacity_ = newCap], h4),
                       Readable(S.heap, me.data_, 0, n) /\ n <= newCap
                       /\ Deletable(S.heap, me.data_), "oob")

\* shrink_to_fit(), had it set capacity_ before reallocate(false) returned
shrink_to_fit_capacity_first(S, v, F) ==
    LET r == reallocate(S, v, FALSE, F)
    IN IF nextPowerOf2(S.vec[v].size_) < S.vec[v].capacity_
       THEN (IF r.res = "ok" THEN r
             ELSE [r EXCEPT !.vec[v].capacity_ = nextPowerOf2(S.vec[v].size_)])
       ELSE Ok(S.vec, S.heap)

\* shrink_to_fit(), had it reallocated whatever the capacity
shrink_to_fit_always(S, v, F) == reallocate(S, v, FALSE, F)

shrink_to_fit(S, v, F) ==
    IF nextPowerOf2(S.vec[v].size_) < S.vec[v].capacity_
    THEN reallocate(S, v, FALSE, F)
    ELSE Ok(S.vec, S.heap)

\* concatenate(other), had it reserved one slot more than the elements need
concatenate_reserving(S, v, o, F) ==
    LET n   == S.vec[v].size_
        cnt == S.vec[o].size_
        r   == reserve(S, v, (n + cnt + 1) % Word, F)
    IN IF cnt = 0 THEN Ok(S.vec, S.heap)
       ELSE IF r.res # "ok" THEN r
       ELSE Ok([r.vec EXCEPT ![v].size_ = n + cnt],
               CopyRange(r.heap, S.vec[o].data_, 0, r.vec[v].data_, n, cnt))

concatenate(S, v, o, F) ==
    LET me      == S.vec[v]
        other   == S.vec[o]
        h       == S.heap
        n       == me.size_
        cnt     == other.size_
        newSize == (n + cnt) % Word
        newCap  == nextPowerOf2(newSize)
        newData == operator_new(S, newCap, F)
        h1      == [h EXCEPT ![newData] = Block(newCap)]
        km      == IF is_nothrow_move_constructible_v THEN n ELSE Done(F, "move", n)
        kc      == IF is_nothrow_copy_constructible_v THEN cnt ELSE Done(F, "copy", cnt)
    IN IF cnt = 0 THEN Ok(S.vec, h)
       ELSE IF newSize > me.capacity_
       THEN IF newData = nullptr THEN Throw(S.vec, h, "bad_alloc")
            ELSE IF km < n
            THEN LET h2 == MoveRange(h1, me.data_, newData, km)
                     h3 == DestroyRange(h2, newData, 0, km)
                 IN Checked(Caught(S.vec, operator_delete(h3, newData), "move",
                                   Span("newData", 0, km), Dtors("newData", 0, km)),
                            Readable(h, me.data_, 0, km + 1) /\ km <= newCap, "oob")
            ELSE LET h2 == Relocate(h1, me.data_, newData, n)
                 IN IF kc < cnt
                    THEN \* copying other.data_[kc] threw after data_ was moved out
                         LET h3 == CopyRange(h2, other.data_, 0, newData, n, kc)
                             h4 == DestroyRange(h3, newData, 0, n + kc)
                         IN Checked(Caught(S.vec, operator_delete(h4, newData), "copy",
                                           Span("newData", 0, n + kc), Dtors("newData", 0, n + kc)),
                                    Readable(h, me.data_, 0, n)
                                    /\ Readable(h2, other.data_, 0, kc + 1)
                                    /\ n + kc <= newCap, "oob")
                    ELSE LET h3 == CopyRange(h2, other.data_, 0, newData, n, cnt)
                             h4 == DestroyRange(h3, me.data_, 0, n)
                             h5 == operator_delete(h4, me.data_)
                         IN Checked(Ok([S.vec EXCEPT ![v].data_ = newData,
                                                     ![v].capacity_ = newCap,
                                                     ![v].size_ = newSize], h5),
                                    Readable(h, me.data_, 0, n)
                                    /\ Readable(h2, other.data_, 0, cnt)
                                    /\ n + cnt <= newCap
                                    /\ Deletable(h, me.data_), "oob")
       ELSE \* in place
            IF kc < cnt
            THEN LET h2 == CopyRange(h, other.data_, 0, me.data_, n, kc)
                     h3 == DestroyRange(h2, me.data_, n, n + kc)
                 IN Checked(Caught(S.vec, h3, "copy",
                                   Span("data_", n, n + kc), Dtors("data_", n, n + kc)),
                            Readable(h, other.data_, 0, kc + 1)
                            /\ InBounds(h, me.data_, n + kc + 1), "oob")
            ELSE Checked(Ok([S.vec EXCEPT ![v].size_ = newSize],
                            CopyRange(h, other.data_, 0, me.data_, n, cnt)),
                         Readable(h, other.data_, 0, cnt)
                         /\ InBounds(h, me.data_, n + cnt), "oob")

resize(S, v, newSize, value, F) ==
    LET me      == S.vec[v]
        h       == S.heap
        n       == me.size_
        grow    == newSize - n
        newCap  == nextPowerOf2(newSize)
        newData == operator_new(S, newCap, F)
        h1      == [h EXCEPT ![newData] = Block(newCap)]
        km      == IF is_nothrow_move_constructible_v THEN n ELSE Done(F, "move", n)
        kc      == IF is_nothrow_copy_constructible_v THEN grow ELSE Done(F, "copy", grow)
    IN IF newSize > n
       THEN IF newSize > me.capacity_
            THEN IF newData = nullptr THEN Throw(S.vec, h, "bad_alloc")
                 ELSE IF km < n
                 THEN LET h2 == MoveRange(h1, me.data_, newData, km)
                          h3 == DestroyRange(h2, newData, 0, km)
                      IN Checked(Caught(S.vec, operator_delete(h3, newData), "move",
                                        Span("newData", 0, km), Dtors("newData", 0, km)),
                                 Readable(h, me.data_, 0, km + 1) /\ km <= newCap, "oob")
                 ELSE LET h2 == Relocate(h1, me.data_, newData, n)
                      IN IF kc < grow
                         THEN \* T(value) threw after data_ was moved out
                              LET h3 == FillRange(h2, newData, n, n + kc, value)
                                  h4 == DestroyRange(h3, newData, 0, n + kc)
                              IN Checked(Caught(S.vec, operator_delete(h4, newData), "copy",
                                                Span("newData", 0, n + kc), Dtors("newData", 0, n + kc)),
                                         Readable(h, me.data_, 0, n) /\ n + kc <= newCap,
                                         "oob")
                         ELSE LET h3 == FillRange(h2, newData, n, newSize, value)
                                  h4 == DestroyRange(h3, me.data_, 0, n)
                                  h5 == operator_delete(h4, me.data_)
                              IN Checked(Ok([S.vec EXCEPT ![v].data_ = newData,
                                                          ![v].capacity_ = newCap,
                                                          ![v].size_ = newSize], h5),
                                         Readable(h, me.data_, 0, n) /\ newSize <= newCap
                                         /\ Deletable(h, me.data_), "oob")
            ELSE \* in place
                 IF kc < grow
                 THEN LET h2 == FillRange(h, me.data_, n, n + kc, value)
                          h3 == DestroyRange(h2, me.data_, n, n + kc)
                      IN Checked(Caught(S.vec, h3, "copy",
                                        Span("data_", n, n + kc), Dtors("data_", n, n + kc)),
                                 InBounds(h, me.data_, n + kc + 1), "oob")
                 ELSE Checked(Ok([S.vec EXCEPT ![v].size_ = newSize],
                                 FillRange(h, me.data_, n, newSize, value)),
                              InBounds(h, me.data_, newSize), "oob")
       ELSE IF newSize < n
       THEN Checked(Ok([S.vec EXCEPT ![v].size_ = newSize],
                       DestroyRange(h, me.data_, newSize, n)),
                    Destroyable(h, me.data_, newSize, n), "oob")
       ELSE Ok(S.vec, h)

\* ------------------------------------------------------------- driver ---
\* Addresses carry no meaning beyond identity: after every call the blocks
\* are renumbered in the order a.data_, b.data_, then unowned live blocks.
RECURSIVE SortedSeq(_)
SortedSeq(P) == IF P = {} THEN <<>> ELSE <<MinOf(P)>> \o SortedSeq(P \ {MinOf(P)})

Canon(vs, h) ==
    LET pa    == vs["a"].data_
        pb    == vs["b"].data_
        order == (IF pa # nullptr THEN <<pa>> ELSE <<>>)
                 \o (IF pb # nullptr /\ pb # pa THEN <<pb>> ELSE <<>>)
                 \o SortedSeq({p \in Addr : h[p].live /\ p # pa /\ p # pb})
        Pos(p) == IF p = nullptr THEN nullptr
                  ELSE CHOOSE i \in 1..Len(order) : order[i] = p
    IN [vec  |-> [v \in Vecs |-> [vs[v] EXCEPT !.data_ = Pos(@)]],
        heap |-> [q \in Addr |-> IF q <= Len(order) THEN h[order[q]] ELSE FreeBlock]]

\* the state a call starts from
Cur == [vec |-> vec, heap |-> heap]

\* every sequence object can still be used: its buffer is null or a block
\* not yet released, and its length fits the block
Sane(vs, h) ==
    \A v \in Vecs :
        vs[v].alive => /\ Deletable(h, vs[v].data_)
                       /\ vs[v].size_ <= Len(Slots(h, vs[v].data_))

\* the call returns: last tells what was called and how it ended.  A run
\* is not followed past undefined behaviour, nor past a call that left a
\* sequence object broken.
Commit(r, op, v, o, arg, val) ==
    LET c == Canon(r.vec, r.heap)
    IN /\ vec' = c.vec
       /\ heap' = c.heap
       /\ fault' = IF r.fault # "none" THEN r.fault
                   ELSE IF ~Sane(r.vec, r.heap) THEN "broken" ELSE "none"
       /\ last' = [op |-> op, who |-> v, other |-> o, arg |-> arg, val |-> val,
                   res |-> r.res, ret |-> r.ret, made |-> r.made, undone |-> r.undone]
       /\ UNCHANGED <<T, mem>>

Idle == [op |-> "idle", who |-> "a", other |-> "a", arg |-> 0, val |-> 0,
         res |-> "ok", ret |-> 0, made |-> <<>>, undone |-> <<>>]

\* the caller goes on after a call that returned or threw; the blocks the
\* call allocated are no longer fresh
Proceed ==
    /\ fault = "none"
    /\ last # Idle
    /\ last' = Idle
    /\ heap' = [p \in Addr |-> [heap[p] EXCEPT !.fresh = FALSE]]
    /\ UNCHANGED <<T, mem, vec, fault>>

PlansOf(kinds) == {F \in Plans : F.kind \in kinds}

RECURSIVE SeqsUpTo(_)
SeqsUpTo(n) == IF n = 0 THEN {<<>>}
               ELSE SeqsUpTo(n - 1) \cup [1..n -> Vals]

\* a call is made when the caller is not looking at the previous one
Going      == fault = "none" /\ last = Idle
Running(v) == Going /\ vec[v].alive
Unborn(v)  == Going /\ ~vec[v].alive

Call_XVector(v) ==
    /\ Unborn(v)
    /\ \E F \in PlansOf({"none", "alloc"}) :
          Commit(XVector_default(Cur, v, F), "XVector", v, v, 0, 0)

Call_XVector_count(v) ==
    /\ Unborn(v)
    /\ \E count \in SizeArgs, value \in Vals, F \in PlansOf({"none", "alloc", "copy"}) :
          Commit(XVector_count(Cur, v, count, value, F), "XVector_count", v, v, count, value)

Call_XVector_init(v) ==
    /\ Unborn(v)
    /\ \E init \in SeqsUpTo(MaxInit), F \in PlansOf({"none", "alloc", "copy"}) :
          Commit(XVector_init(Cur, v, init, F), "XVector_init", v, v, Len(init), 0)

Call_XVector_copy(v, o) ==
    /\ Unborn(v) /\ Running(o)
    /\ \E F \in PlansOf({"none", "alloc", "copy"}) :
          Commit(XVector_copy(Cur, v, o, F), "XVector_copy", v, o, 0, 0)

Call_XVector_move(v, o) ==
    /\ Unborn(v) /\ Running(o)
    /\ Commit(XVector_move(Cur, v, o), "XVector_move", v, o, 0, 0)

Call_dtor(v) ==
    /\ Running(v)
    /\ Commit(XVector_dtor(Cur, v), "~XVector", v, v, 0, 0)

Call_copy_assign(v, o) ==
    /\ Running(v) /\ Running(o)
    /\ \E F \in PlansOf({"none", "alloc", "copy", "assign"}) :
          Commit(copy_assign(Cur, v, o, F), "copy_assign", v, o, 0, 0)

Call_move_assign(v, o) ==
    /\ Running(v) /\ Running(o)
    /\ Commit(move_assign(Cur, v, o), "move_assign", v, o, 0, 0)

Call_at(v) ==
    /\ Running(v)
    /\ \E idx \in SizeArgs : Commit(at(Cur, v, idx), "at", v, v, idx, 0)

Call_append(v) ==
    /\ Running(v)
    /\ \E item \in Vals, F \in PlansOf({"none", "alloc", "move", "copy"}) :
          Commit(append(Cur, v, item, F), "append", v, v, 0, item)

Call_append_rv(v) ==
    /\ Running(v)
    /\ \E item \in Vals, F \in PlansOf({"none", "alloc", "move"}) :
          Commit(append_rv(Cur, v, item, F), "append_rv", v, v, 0, item)

Call_emplace_back(v) ==
    /\ Running(v)
    /\ \E item \in Vals, F \in PlansOf({"none", "alloc", "move", "copy"}) :
          Commit(emplace_back(Cur, v, item, F), "emplace_back", v, v, 0, item)

Call_pop_back(v) ==
    /\ Running(v)
    /\ Commit(pop_back(Cur, v), "pop_back", v, v, 0, 0)

Call_concatenate(v, o) ==
    /\ Running(v) /\ Running(o)
    /\ \E F \in PlansOf({"none", "alloc", "move", "copy"}) :
          Commit(concatenate(Cur, v, o, F), "concatenate", v, o, 0, 0)

Call_clear(v) ==
    /\ Running(v)
    /\ Commit(clear(Cur, v), "clear", v, v, 0, 0)

Call_swap(v, o) ==
    /\ Running(v) /\ Running(o)
    /\ Commit(swap(Cur, v, o), "swap", v, o, 0, 0)

Call_reserve(v) ==
    /\ Running(v)
    /\ \E space \in SizeArgs, F \in PlansOf({"none", "alloc", "move"}) :
          Commit(reserve(Cur, v, space, F), "reserve", v, v, space, 0)

Call_resize(v) ==
    /\ Running(v)
    /\ \E newSize \in SizeArgs, value \in Vals,
          F \in PlansOf({"none", "alloc", "move", "copy"}) :
          Commit(resize(Cur, v, newSize, value, F), "resize", v, v, newSize, value)

Call_shrink_to_fit(v) ==
    /\ Running(v)
    /\ \E F \in PlansOf({"none", "alloc", "move"}) :
          Commit(shrink_to_fit(Cur, v, F), "shrink_to_fit", v, v, 0, 0)

Start(limit) ==
    /\ T \in Types
    /\ mem = limit
    /\ vec = [v \in Vecs |-> NoVec]
    /\ heap = [p \in Addr |-> FreeBlock]
    /\ fault = "none"
    /\ last = Idle

Unary(v) ==
    \/ Call_XVector(v)
    \/ Call_XVector_count(v)
    \/ Call_XVector_init(v)
    \/ Call_dtor(v)
    \/ Call_at(v)
    \/ Call_append(v)
    \/ Call_append_rv(v)
    \/ Call_emplace_back(v)
    \/ Call_pop_back(v)
    \/ Call_clear(v)
    \/ Call_reserve(v)
    \/ Call_resize(v)
    \/ Call_shrink_to_fit(v)

Binary(v, o) ==
    \/ Call_XVector_copy(v, o)
    \/ Call_XVector_move(v, o)
    \/ Call_copy_assign(v, o)
    \/ Call_move_assign(v, o)
    \/ Call_concatenate(v, o)
    \/ Call_swap(v, o)

\* two sequences, every operation
Init == Start(MaxAlloc)
Next == Proceed \/ \E v \in Vecs : Unary(v) \/ \E o \in Vecs : Binary(v, o)
Spec == Init /\ [][Next]_vars

\* one sequence, more memory
InitSolo == Start(SoloAlloc)
NextSolo == Proceed \/ Unary("a")
SpecSolo == InitSolo /\ [][NextSolo]_vars

\* default construction followed by appends that return
Call_append_returns(v) == Call_append(v) /\ last'.res = "ok"

InitAppends == Start(SoloAlloc)
NextAppends == Proceed \/ \E v \in Vecs : Call_XVector(v) \/ Call_append_returns(v)
SpecAppends == InitAppends /\ [][NextAppends]_vars

\* the two static helpers, called directly
Call_nextPowerOf2 ==
    /\ Going
    /\ \E n \in 0..SizeMax :
          last' = [Idle EXCEPT !.op = "nextPowerOf2", !.arg = n, !.ret = nextPowerOf2(n)]
    /\ UNCHANGED <<T, mem, vec, heap, fault>>

\* dest is block 1: fresh storage of cap slots, count of them to be filled
Call_fillTrivial ==
    /\ Going
    /\ is_trivially_copyable_v
    /\ \E cap \in 0..MaxFill, value \in Vals :
          \E count \in 0..cap :
             /\ heap' = [heap EXCEPT ![1] =
                            [live |-> TRUE, fresh |-> TRUE,
                             slots |-> fillTrivial(Block(cap).slots, count, value).dest]]
             /\ fault' = IF fillTrivial(Block(cap).slots, count, value).safe
                         THEN "none" ELSE "oob"
             /\ last' = [Idle EXCEPT !.op = "fillTrivial", !.arg = count, !.val = value,
                                     !.ret = fillTrivial(Block(cap).slots, count, value).copies]
    /\ UNCHANGED <<T, mem, vec>>

InitPure == Start(SoloAlloc)
NextPure == Proceed \/ Call_nextPowerOf2 \/ Call_fillTrivial
SpecPure == InitPure /\ [][NextPure]_vars

\* ------------------------------------------------------- dynamicArray ---
\* dynamicArray<T> (src/dynamicArray.tpp), the older container: the same
\* heap, with vec holding the members len, cap and arr of each object.
NoArr == [alive |-> FALSE, len |-> 0, cap |-> 0, arr |-> nullptr]

\* ::operator new(n * sizeof(T)) called from a dynamicArray
dynamicArray_new(S, n, F) ==
    LET free == {p \in Addr : ~S.heap[p].live
                              /\ \A v \in Vecs : S.vec[v].arr # p}
    IN IF F.kind # "alloc" /\ n <= mem /\ free # {} THEN MinOf(free) ELSE nullptr

\* new (&newArr[i]) T(std::move(arr[i])) for i in [0, n)
dynamicArray_move_n(h, src, dst, n) == Relocate(h, src, dst, n)

\* reallocate(bool doubleCap); made lists the elements it move-constructed
dynamicArray_reallocate(S, v, doubleCap, F) ==
    LET me     == S.vec[v]
        n      == me.len
        newCap == IF doubleCap THEN (me.cap * 2) % Word ELSE nextPowerOf2(n)
        newArr == dynamicArray_new(S, newCap, F)
        h1     == [S.heap EXCEPT ![newArr] = Block(newCap)]
        k      == IF is_nothrow_move_constructible_v THEN n ELSE Done(F, "move", n)
    IN IF newArr = nullptr THEN Throw(S.vec, S.heap, "bad_alloc")
       ELSE IF k < n
       THEN LET h2 == MoveRange(h1, me.arr, newArr, k)
                h3 == DestroyRange(h2, newArr, 0, k)
            IN Checked(Caught(S.vec, operator_delete(h3, newArr), "move",
                              Span("newArr", 0, k), Span("newArr", 0, k)),
                       Readable(S.heap, me.arr, 0, k + 1) /\ k <= newCap, "oob")
       ELSE LET h2 == dynamicArray_move_n(h1, me.arr, newArr, n)
                h3 == DestroyRange(h2, me.arr, 0, n)
                h4 == operator_delete(h3, me.arr)
            IN Checked([Ok([S.vec EXCEPT ![v].arr = newArr, ![v].cap = newCap], h4)
                           EXCEPT !.made = Span("newArr", 0, n)],
                       Readable(S.heap, me.arr, 0, n) /\ n <= newCap
                       /\ Deletable(S.heap, me.arr), "oob")

\* dynamicArray()
dynamicArray_default(S, v, F) ==
    LET p == dynamicArray_new(S, 1, F)
    IN IF p = nullptr THEN Throw(S.vec, S.heap, "bad_alloc")
       ELSE Ok([S.vec EXCEPT ![v] = [alive |-> TRUE, len |-> 0, cap |-> 1, arr |-> p]],
               [S.heap EXCEPT ![p] = Block(1)])

\* dynamicArray(size_t count, const T& value), no T(value) throwing
dynamicArray_count(S, v, count, value, F) ==
    LET c == nextPowerOf2(count)
        p == dynamicArray_new(S, c, F)
    IN IF p = nullptr THEN Throw(S.vec, S.heap, "bad_alloc")
       ELSE Checked(Ok([S.vec EXCEPT ![v] = [alive |-> TRUE, len |-> count,
                                             cap |-> c, arr |-> p]],
                       FillRange([S.heap EXCEPT ![p] = Block(c)], p, 0, count, value)),
                    count <= c, "oob")

\* ~dynamicArray()
dynamicArray_dtor(S, v) ==
    LET me == S.vec[v]
    IN Checked(Ok([S.vec EXCEPT ![v] = NoArr],
                  operator_delete(DestroyRange(S.heap, me.arr, 0, me.len), me.arr)),
               Destroyable(S.heap, me.arr, 0, me.len) /\ Deletable(S.heap, me.arr),
               "bad_free")

\* dynamicArray(dynamicArray&& other) noexcept
dynamicArray_move(S, v, o) ==
    LET other == S.vec[o]
    IN Ok([S.vec EXCEPT ![v] = [alive |-> TRUE, len |-> other.len, cap |-> other.cap,
                                arr |-> other.arr],
                        ![o] = [alive |-> TRUE, len |-> 0, cap |-> 0, arr |-> nullptr]],
          S.heap)

\* operator=(dynamicArray&& other) noexcept.  delete[] arr is applied to a
\* block that came from ::operator new: with a trivially destructible T the
\* build releases the block; with any other T it reads an element count
\* that was never stored, and the run is not followed.
dynamicArray_move_assign(S, v, o) ==
    LET me    == S.vec[v]
        other == S.vec[o]
    IN IF v = o THEN Ok(S.vec, S.heap)
       ELSE Checked(Ok([S.vec EXCEPT ![v].len = other.len, ![v].cap = other.cap,
                                     ![v].arr = other.arr,
                                     ![o].len = 0, ![o].cap = 0, ![o].arr = nullptr],
                       operator_delete(S.heap, me.arr)),
                    me.arr = nullptr \/ (is_trivially_destructible_v /\ Live(S.heap, me.arr)),
                    "bad_free")

\* arr[len] = item; ++len;  r is what the growth step left.  The assignment
\* needs an element at arr[len] unless T is trivially copyable.
dynamicArray_store(r, v, item, assignThrows) ==
    LET me == r.vec[v]
    IN IF r.res # "ok" THEN r
       ELSE IF assignThrows
       THEN Checked(Throw(r.vec, r.heap, "assign"),
                    Readable(r.heap, me.arr, me.len, me.len + 1), "oob")
       ELSE Checked([Ok([r.vec EXCEPT ![v].len = (me.len + 1) % Word],
                        FillRange(r.heap, me.arr, me.len, me.len + 1, item))
                        EXCEPT !.made = r.made],
                    Readable(r.heap, me.arr, me.len, me.len + 1), "oob")

\* append(const T& item)
dynamicArray_append(S, v, item, F) ==
    dynamicArray_store(IF S.vec[v].len >= S.vec[v].cap
                       THEN dynamicArray_reallocate(S, v, TRUE, F)
                       ELSE Ok(S.vec, S.heap),
                       v, item, F.kind = "assign")

\* pop_back()
dynamicArray_pop_back(S, v) ==
    LET me == S.vec[v]
    IN IF me.len > 0
       THEN Checked(Ok([S.vec EXCEPT ![v].len = me.len - 1],
                       DestroyRange(S.heap, me.arr, me.len - 1, me.len)),
                    Destroyable(S.heap, me.arr, me.len - 1, me.len), "oob")
       ELSE Ok(S.vec, S.heap)

\* clear() noexcept
dynamicArray_clear(S, v) ==
    LET me == S.vec[v]
    IN Checked(Ok([S.vec EXCEPT ![v].len = 0], DestroyRange(S.heap, me.arr, 0, me.len)),
               Destroyable(S.heap, me.arr, 0, me.len), "oob")

\* std::copy_n(other.arr, other.len, arr + oldLen);  r is what the growth
\* step left: other.arr and other.len are read after it, so that with
\* other == *this they are the new buffer and the new length
dynamicArray_copy_n(r, v, o, oldLen) ==
    IF r.res # "ok" THEN r
    ELSE Checked([Ok(r.vec, CopyRange(r.heap, r.vec[o].arr, 0, r.vec[v].arr, oldLen,
                                      r.vec[o].len))
                     EXCEPT !.made = r.made],
                 Readable(r.heap, r.vec[o].arr, 0, r.vec[o].len)
                 /\ Readable(r.heap, r.vec[v].arr, oldLen, oldLen + r.vec[o].len), "oob")

\* len += other.len; if (len > cap) reallocate();
dynamicArray_grow(S, v, o, F) ==
    IF (S.vec[v].len + S.vec[o].len) % Word > S.vec[v].cap
    THEN dynamicArray_reallocate(
             [vec  |-> [S.vec EXCEPT ![v].len = (@ + S.vec[o].len) % Word],
              heap |-> S.heap], v, FALSE, F)
    ELSE Ok([S.vec EXCEPT ![v].len = (@ + S.vec[o].len) % Word], S.heap)

\* concatenate(const dynamicArray& other)
dynamicArray_concatenate(S, v, o, F) ==
    IF S.vec[o].len = 0 THEN Ok(S.vec, S.heap)
    ELSE dynamicArray_copy_n(dynamicArray_grow(S, v, o, F), v, o, S.vec[v].len)

\* the blocks renumbered in the order a.arr, b.arr, then unowned live blocks
CanonArr(vs, h) ==
    LET pa    == vs["a"].arr
        pb    == vs["b"].arr
        order == (IF pa # nullptr THEN <<pa>> ELSE <<>>)
                 \o (IF pb # nullptr /\ pb # pa THEN <<pb>> ELSE <<>>)
                 \o SortedSeq({p \in Addr : h[p].live /\ p # pa /\ p # pb})
        Pos(p) == IF p = nullptr THEN nullptr
                  ELSE CHOOSE i \in 1..Len(order) : order[i] = p
    IN [vec  |-> [v \in Vecs |-> [vs[v] EXCEPT !.arr = Pos(@)]],
        heap |-> [q \in Addr |-> IF q <= Len(order) THEN h[order[q]] ELSE FreeBlock]]

\* every array can still be used
SaneArr(vs, h) ==
    \A v \in Vecs :
        vs[v].alive => /\ Deletable(h, vs[v].arr)
                       /\ vs[v].len <= Len(Slots(h, vs[v].arr))

CommitArr(r, op, v, o, arg, val) ==
    LET c == CanonArr(r.vec, r.heap)
    IN /\ vec' = c.vec
       /\ heap' = c.heap
       /\ fault' = IF r.fault # "none" THEN r.fault
                   ELSE IF ~SaneArr(r.vec, r.heap) THEN "broken" ELSE "none"
       /\ last' = [op |-> op, who |-> v, other |-> o, arg |-> arg, val |-> val,
                   res |-> r.res, ret |-> r.ret, made |-> r.made, undone |-> r.undone]
       /\ UNCHANGED <<T, mem>>

Call_dynamicArray(v) ==
    /\ Unborn(v)
    /\ \E F \in PlansOf({"none", "alloc"}) :
          CommitArr(dynamicArray_default(Cur, v, F), "dynamicArray", v, v, 0, 0)

Call_dynamicArray_count(v) ==
    /\ Unborn(v)
    /\ \E count \in SizeArgs, value \in Vals, F \in PlansOf({"none", "alloc"}) :
          CommitArr(dynamicArray_count(Cur, v, count, value, F),
                    "dynamicArray_count", v, v, count, value)

Call_dynamicArray_move(v, o) ==
    /\ Unborn(v) /\ Running(o)
    /\ CommitArr(dynamicArray_move(Cur, v, o), "dynamicArray_move", v, o, 0, 0)

Call_dynamicArray_dtor(v) ==
    /\ Running(v)
    /\ CommitArr(dynamicArray_dtor(Cur, v), "~dynamicArray", v, v, 0, 0)

Call_dynamicArray_move_assign(v, o) ==
    /\ Running(v) /\ Running(o)
    /\ CommitArr(dynamicArray_move_assign(Cur, v, o), "dynamicArray_move_assign", v, o, 0, 0)

Call_dynamicArray_append(v) ==
    /\ Running(v)
    /\ \E item \in Vals, F \in PlansOf({"none", "alloc", "move", "assign"}) :
          CommitArr(dynamicArray_append(Cur, v, item, F), "dynamicArray_append", v, v, 0, item)

Call_dynamicArray_pop_back(v) ==
    /\ Running(v)
    /\ CommitArr(dynamicArray_pop_back(Cur, v), "dynamicArray_pop_back", v, v, 0, 0)

Call_dynamicArray_clear(v) ==
    /\ Running(v)
    /\ CommitArr(dynamicArray_clear(Cur, v), "dynamicArray_clear", v, v, 0, 0)

Call_dynamicArray_concatenate(v, o) ==
    /\ Running(v) /\ Running(o)
    /\ \E F \in PlansOf({"none", "alloc", "move"}) :
          CommitArr(dynamicArray_concatenate(Cur, v, o, F),
                    "dynamicArray_concatenate", v, o, 0, 0)

\* two arrays
InitArr ==
    /\ T \in Types
    /\ mem = MaxAlloc
    /\ vec = [v \in Vecs |-> NoArr]
    /\ heap = [p \in Addr |-> FreeBlock]
    /\ fault = "none"
    /\ last = Idle

NextArr ==
    \/ Proceed
    \/ \E v \in Vecs :
          \/ Call_dynamicArray(v)
          \/ Call_dynamicArray_count(v)
          \/ Call_dynamicArray_dtor(v)
          \/ Call_dynamicArray_append(v)
          \/ Call_dynamicArray_pop_back(v)
          \/ Call_dynamicArray_clear(v)
          \/ \E o \in Vecs :
                \/ Call_dynamicArray_move(v, o)
                \/ Call_dynamicArray_move_assign(v, o)
                \/ Call_dynamicArray_concatenate(v, o)

SpecArr == InitArr /\ [][NextArr]_vars

\* ------------------------------------------------------------- claims ---
IsPowerOfTwo(n) == \E e \in 0..(WordBits - 1) : n = 2 ^ e

\* the elements of sequence v, in index order
Elems(vs, h, v) == [i \in 1..vs[v].size_ |-> Peek(h, vs[v].data_, i - 1)]

MovedFrom(m) == m.alive /\ m.size_ = 0 /\ m.capacity_ = 0 /\ m.data_ = nullptr

PushOps == {"append", "append_rv", "emplace_back"}

\* the smallest power of two >= n
next_pow2(n) == MinOf({2 ^ e : e \in {x \in 0..WordBits : 2 ^ x >= n}})

\* no block was handed out by the call that just returned
NoAllocation(h) == \A p \in Addr : ~h[p].fresh

\* C1: after every public call, size_ <= capacity_ and capacity_ is 0 or a
\* power of two (stated for the calls whose every step was defined).
C1_LengthWithinCapacity ==
    fault \in {"none", "broken"} =>
        \A v \in Vecs :
            vec[v].alive => /\ vec[v].size_ <= vec[v].capacity_
                            /\ (vec[v].capacity_ = 0 \/ IsPowerOfTwo(vec[v].capacity_))

\* C2: for an element type with a non-trivial destructor, once a call has
\* returned no slot at an index >= size_ holds a constructed element.
C2_NothingConstructedPastLength ==
    (~is_trivially_destructible_v /\ fault = "none") =>
        \A v \in Vecs :
            vec[v].alive =>
                \A i \in vec[v].size_..(Len(Slots(heap, vec[v].data_)) - 1) :
                    Peek(heap, vec[v].data_, i) = Raw

\* C3: pop_back on length 0 is a no-op that does not fail; on length > 0 it
\* destroys slot length-1 and decrements the length by exactly 1.
C3_PopBack ==
    [][last'.op = "pop_back" =>
          LET v == last'.who
          IN IF vec[v].size_ = 0
             THEN vec' = vec /\ heap' = heap /\ last'.res = "ok" /\ fault' = "none"
             ELSE /\ last'.res = "ok" /\ fault' = "none"
                  /\ vec' = [vec EXCEPT ![v].size_ = @ - 1]
                  /\ heap' = DestroyRange(heap, vec[v].data_, vec[v].size_ - 1, vec[v].size_)
      ]_vars

\* C4: if a move construction throws during a reallocation (reserve,
\* shrink_to_fit, the growth step of append/emplace_back, resize), the
\* sequence keeps its length, capacity, buffer and every element value.
C4_MoveThrowKeepsState ==
    [][last'.res = "move" => vec' = vec /\ heap' = heap]_vars

\* C5: if constructing the new element throws in append or emplace_back,
\* length, capacity and all element values are as before the call, also
\* when the call was made at length == capacity.
C5_CtorThrowKeepsState ==
    [][(last'.op \in PushOps /\ last'.res = "ctor") =>
          LET v == last'.who
          IN /\ vec'[v].size_ = vec[v].size_
             /\ vec'[v].capacity_ = vec[v].capacity_
             /\ Elems(vec', heap', v) = Elems(vec, heap, v)
      ]_vars

\* C6: if copying one of other's elements throws in concatenate(other),
\* other distinct from this, this keeps its length, capacity and element
\* values, and other is unchanged.
C6_ConcatCopyThrowKeepsState ==
    [][(last'.op = "concatenate" /\ last'.who # last'.other /\ last'.res = "copy") =>
          LET v == last'.who
              o == last'.other
          IN /\ vec'[v].size_ = vec[v].size_
             /\ vec'[v].capacity_ = vec[v].capacity_
             /\ Elems(vec', heap', v) = Elems(vec, heap, v)
             /\ vec'[o].size_ = vec[o].size_
             /\ vec'[o].capacity_ = vec[o].capacity_
             /\ Elems(vec', heap', o) = Elems(vec, heap, o)
      ]_vars

\* C7: if copying an element of b throws in a = b, a distinct from b, a is
\* left equal to its state before the call: same length, capacity and
\* element values, its buffer still allocated.
C7_AssignThrowKeepsState ==
    [][(last'.op = "copy_assign" /\ last'.who # last'.other
        /\ last'.res \in {"copy", "assign"}) =>
          LET v == last'.who
          IN /\ vec'[v].size_ = vec[v].size_
             /\ vec'[v].capacity_ = vec[v].capacity_
             /\ Live(heap', vec'[v].data_)
             /\ Elems(vec', heap', v) = Elems(vec, heap, v)
      ]_vars

\* C8: a call whose allocation fails reports std::bad_alloc to the caller
\* and leaves every length, capacity, buffer and element as it was; a
\* reserve that needs more than the memory there is always fails so.
C8_BadAllocKeepsState ==
    [][/\ last'.res = "bad_alloc" => (vec' = vec /\ heap' = heap /\ fault' = "none")
       /\ (last'.op = "reserve" /\ last'.arg > vec[last'.who].capacity_
           /\ nextPowerOf2(last'.arg) > mem) => last'.res = "bad_alloc"
      ]_vars

C8_Witness ==
    /\ last.op \in {"reserve", "concatenate", "copy_assign"}
    /\ last.res = "bad_alloc"
    /\ vec[last.who].size_ > 0

\* C9: move construction and move assignment from a distinct source never
\* fail; the destination gets the source's length, capacity and elements,
\* the source is left with length 0, capacity 0 and a null buffer; an
\* append to a moved-from sequence gives length 1, capacity 1 and the
\* appended element, and clear or destruction of it touches no slot.
C9_MoveEmptiesSource ==
    [][/\ (last'.op \in {"XVector_move", "move_assign"} /\ last'.who # last'.other) =>
            LET d == last'.who
                s == last'.other
            IN /\ last'.res = "ok" /\ fault' = "none"
               /\ vec'[d].size_ = vec[s].size_
               /\ vec'[d].capacity_ = vec[s].capacity_
               /\ Elems(vec', heap', d) = Elems(vec, heap, s)
               /\ MovedFrom(vec'[s])
       /\ (last'.op \in PushOps /\ last'.res = "ok" /\ MovedFrom(vec[last'.who])) =>
            LET v == last'.who
            IN /\ vec'[v].size_ = 1 /\ vec'[v].capacity_ = 1
               /\ Elems(vec', heap', v) = <<last'.val>>
       /\ (last'.op \in {"clear", "~XVector"} /\ MovedFrom(vec[last'.who])) =>
            /\ last'.res = "ok" /\ fault' = "none"
            /\ heap' = heap
      ]_vars

C9_Witness ==
    /\ last.op = "move_assign" /\ last.who # last.other
    /\ vec[last.who].size_ = 2
    /\ MovedFrom(vec[last.other])

\* C10: at(idx) reports out-of-range exactly when idx >= size_, returns
\* slot idx otherwise, and changes no length, capacity or element.
C10_AtChecksRange ==
    [][last'.op = "at" =>
          LET v == last'.who
          IN /\ (last'.res = "out_of_range") = (last'.arg >= vec[v].size_)
             /\ last'.res # "out_of_range" =>
                   (last'.res = "ok" /\ last'.ret = Peek(heap, vec[v].data_, last'.arg))
             /\ vec' = vec /\ heap' = heap /\ fault' = "none"
      ]_vars

C10_Witness ==
    /\ last.op = "at" /\ last.res = "out_of_range"
    /\ last.arg = vec[last.who].size_
    /\ MovedFrom(vec[last.who])

\* C11: an append or emplace_back that returns, made at length == capacity,
\* changes the capacity to exactly twice its value, or to 1 from 0; made at
\* length < capacity it leaves the capacity and the buffer as they were.
C11_GrowthDoubles ==
    [][(last'.op \in PushOps /\ last'.res = "ok") =>
          LET v == last'.who
          IN IF vec[v].size_ = vec[v].capacity_
             THEN vec'[v].capacity_ = (IF vec[v].capacity_ = 0 THEN 1
                                       ELSE 2 * vec[v].capacity_)
             ELSE /\ vec'[v].capacity_ = vec[v].capacity_
                  /\ vec'[v].data_ = vec[v].data_
                  /\ NoAllocation(heap')
      ]_vars

C11_Witness ==
    /\ last.op = "emplace_back" /\ last.res = "ok"
    /\ vec[last.who].size_ = 2 /\ vec[last.who].capacity_ = 2
    /\ heap[vec[last.who].data_].fresh

\* C12: a default-constructed sequence has length 0 and capacity 1; each of
\* the appends that follow adds its value at the end and leaves the capacity
\* at the smallest power of two >= the new length (1, 2, 4, ...).
C12_AppendsFromEmpty ==
    [][/\ (last'.op = "XVector" /\ last'.res = "ok") =>
            (vec'[last'.who].size_ = 0 /\ vec'[last'.who].capacity_ = 1)
       /\ last'.op = "append" =>
            LET v == last'.who
            IN /\ vec'[v].size_ = vec[v].size_ + 1
               /\ Elems(vec', heap', v) = Append(Elems(vec, heap, v), last'.val)
       /\ \A v \in Vecs :
            vec'[v].alive => vec'[v].capacity_ = next_pow2(vec'[v].size_)
      ]_vars

C12_Witness ==
    /\ last.op = "append" /\ last.res = "ok"
    /\ vec[last.who].size_ = 3 /\ vec[last.who].capacity_ = 4
    /\ Elems(vec, heap, last.who) = <<1, 2, 1>>

\* length, capacity and elements of sequence v are the same in both states
SameValue(vs, h, ws, g, v) ==
    /\ ws[v].alive = vs[v].alive
    /\ ws[v].size_ = vs[v].size_
    /\ ws[v].capacity_ = vs[v].capacity_
    /\ Elems(ws, g, v) = Elems(vs, h, v)

\* C13: XVector(count, value), unless an allocation or a copy fails, yields
\* length count, capacity the smallest power of two >= count, and every
\* slot in [0, count) equal to value.
C13_CountConstructor ==
    [][(last'.op = "XVector_count" /\ last'.res \notin {"bad_alloc", "copy"}) =>
          LET v == last'.who
          IN /\ last'.res = "ok" /\ fault' = "none"
             /\ vec'[v].size_ = last'.arg
             /\ vec'[v].capacity_ = next_pow2(last'.arg)
             /\ Elems(vec', heap', v) = [i \in 1..last'.arg |-> last'.val]
      ]_vars

C15_ConcatenateAppendsOther ==
    [][(last'.op = "concatenate" /\ last'.who # last'.other /\ last'.res = "ok") =>
          LET v == last'.who
              o == last'.other
          IN /\ fault' = "none"
             /\ vec'[v].size_ = vec[v].size_ + vec[o].size_
             /\ Elems(vec', heap', v) = Elems(vec, heap, v) \o Elems(vec, heap, o)
             /\ SameValue(vec, heap, vec', heap', o)
             /\ vec[o].size_ = 0 => (vec' = vec /\ heap' = heap)
      ]_vars

C15_Witness ==
    /\ last.op = "concatenate" /\ last.who # last.other /\ last.res = "ok"
    /\ Elems(vec, heap, last.who) = <<1, 2>>
    /\ Elems(vec, heap, last.other) = <<2>>

C17_ReserveNeverShrinks ==
    [][(last'.op = "reserve" /\ last'.res = "ok") =>
          LET v == last'.who
          IN /\ fault' = "none"
             /\ vec'[v].capacity_ >= next_pow2(last'.arg)
             /\ vec'[v].capacity_ >= vec[v].capacity_
             /\ vec[v].capacity_ >= next_pow2(last'.arg) => (vec' = vec /\ heap' = heap)
             /\ vec'[v].size_ = vec[v].size_
             /\ Elems(vec', heap', v) = Elems(vec, heap, v)
      ]_vars

\* C18 as the specification states it: after a shrink_to_fit that returns,
\* capacity is the smallest power of two >= length, and length and elements
\* are unchanged.
C18_ShrinkGivesNextPow2 ==
    [][(last'.op = "shrink_to_fit" /\ last'.res = "ok") =>
          LET v == last'.who
          IN /\ vec'[v].capacity_ = next_pow2(vec'[v].size_)
             /\ vec'[v].size_ = vec[v].size_
             /\ Elems(vec', heap', v) = Elems(vec, heap, v)
      ]_vars

\* C18 as the code has it: after a shrink_to_fit that returns, capacity is
\* the smallest power of two >= length if that is smaller than the capacity
\* before the call, and the capacity before the call otherwise (so it stays
\* 0 in the moved-from state); length and elements are unchanged.
C18_ShrinkNeverGrows ==
    [][(last'.op = "shrink_to_fit" /\ last'.res = "ok") =>
          LET v == last'.who
          IN /\ fault' = "none"
             /\ vec'[v].capacity_ = Min2(vec[v].capacity_, next_pow2(vec[v].size_))
             /\ vec'[v].size_ = vec[v].size_
             /\ Elems(vec', heap', v) = Elems(vec, heap, v)
      ]_vars

C18_Witness ==
    /\ last.op = "shrink_to_fit" /\ last.res = "ok"
    /\ MovedFrom(vec[last.who])

\* C19: resize(n, v), unless an allocation, a move or a copy fails, leaves
\* length n: growing keeps the elements and fills [length, n) with v, the
\* capacity unchanged if n <= capacity and the smallest power of two >= n
\* otherwise; shrinking keeps the first n elements, destroys [n, length)
\* and keeps the capacity; n = length changes nothing.
C19_Resize ==
    [][(last'.op = "resize" /\ last'.res \notin {"bad_alloc", "move", "copy"}) =>
          LET v == last'.who
              n == last'.arg
              old == Elems(vec, heap, v)
          IN /\ last'.res = "ok" /\ fault' = "none"
             /\ vec'[v].size_ = n
             /\ Elems(vec', heap', v) =
                    [i \in 1..n |-> IF i <= vec[v].size_ THEN old[i] ELSE last'.val]
             /\ vec'[v].capacity_ = (IF n <= vec[v].capacity_ THEN vec[v].capacity_
                                      ELSE next_pow2(n))
             /\ n < vec[v].size_ =>
                    heap' = DestroyRange(heap, vec[v].data_, n, vec[v].size_)
             /\ n = vec[v].size_ => (vec' = vec /\ heap' = heap)
      ]_vars

\* C20: clear does not fail, destroys the elements [0, length), sets the
\* length to 0 and leaves capacity and buffer as they were; on an empty
\* sequence it changes nothing.
C20_Clear ==
    [][last'.op = "clear" =>
          LET v == last'.who
          IN /\ last'.res = "ok" /\ fault' = "none"
             /\ vec' = [vec EXCEPT ![v].size_ = 0]
             /\ heap' = DestroyRange(heap, vec[v].data_, 0, vec[v].size_)
             /\ vec[v].size_ = 0 => (vec' = vec /\ heap' = heap)
      ]_vars

C20_Witness ==
    /\ last.op = "clear" /\ last.res = "ok"
    /\ ~is_trivially_destructible_v
    /\ vec[last.who].size_ = 0 /\ vec[last.who].capacity_ = 2
    /\ Live(heap, vec[last.who].data_)

\* C21: a = b, a distinct from b, when it returns: a has b's length and
\* elements and b is unchanged; if b's length fitted a's capacity, a's
\* buffer and capacity are as they were and nothing was allocated,
\* otherwise a has a fresh buffer and b's capacity.
C21_CopyAssign ==
    [][(last'.op = "copy_assign" /\ last'.who # last'.other /\ last'.res = "ok") =>
          LET v == last'.who
              o == last'.other
          IN /\ fault' = "none"
             /\ vec'[v].size_ = vec[o].size_
             /\ Elems(vec', heap', v) = Elems(vec, heap, o)
             /\ SameValue(vec, heap, vec', heap', o)
             /\ IF vec[o].size_ <= vec[v].capacity_
                THEN /\ vec'[v].capacity_ = vec[v].capacity_
                     /\ vec'[v].data_ = vec[v].data_
                     /\ NoAllocation(heap')
                ELSE /\ vec'[v].capacity_ = vec[o].capacity_
                     /\ heap'[vec'[v].data_].fresh
      ]_vars

C21_Witness ==
    /\ last.op = "copy_assign" /\ last.who # last.other /\ last.res = "ok"
    /\ Elems(vec, heap, last.who) = <<2, 1>>
    /\ Elems(vec, heap, last.other) = <<2, 1>>
    /\ NoAllocation(heap)

\* C27: x.concatenate(x) on a non-empty x, when it returns, leaves x holding
\* its elements from before the call followed by the same values again, on
\* either path and for every element type; no step of it was undefined.
C27_SelfConcatenate ==
    [][(last'.op = "concatenate" /\ last'.who = last'.other /\ last'.res = "ok"
        /\ vec[last'.who].size_ > 0) =>
          LET v == last'.who
          IN /\ fault' = "none"
             /\ vec'[v].size_ = 2 * vec[v].size_
             /\ Elems(vec', heap', v) = Elems(vec, heap, v) \o Elems(vec, heap, v)
      ]_vars

\* C26: whatever calls were made, failing ones included, as long as no step
\* of them was undefined: the buffer of every sequence object is null or a
\* block not yet released (data_ never dangles), and every block not yet
\* released is the buffer of exactly one sequence object, so that destroying
\* every sequence releases each block exactly once.
C26_EveryBufferOwnedOnce ==
    fault \in {"none", "broken"} =>
        /\ \A v \in Vecs : vec[v].alive => Deletable(heap, vec[v].data_)
        /\ \A p \in Addr :
              heap[p].live => Cardinality({v \in Vecs : vec[v].alive /\ vec[v].data_ = p}) = 1

\* the elements a sequence of slots names
Range(q) == {q[j] : j \in DOMAIN q}

\* C25: when a call ends because constructing an element threw (no step of
\* the call being undefined), its handler destroys exactly the elements the
\* call had constructed: each of them, and no other slot.
C25_HandlerDestroysWhatWasBuilt ==
    [][(last'.res \in {"move", "copy"} /\ fault' \in {"none", "broken"}) =>
          Range(last'.undone) = Range(last'.made)]_vars

Reverse(q) == [j \in 1..Len(q) |-> q[Len(q) + 1 - j]]

\* C24: when constructing element i of the new buffer throws during a
\* reallocation (reallocate, reserve, resize, concatenate), the handler
\* destroys the i elements constructed there in reverse order of their
\* construction, i-1 down to 0, before the new buffer is released.
C24_UnwindsInReverse ==
    [][(last'.res \in {"move", "copy"} /\ fault' = "none"
        /\ \E j \in DOMAIN last'.made : last'.made[j][1] = "newData"
        /\ last'.op \in PushOps \cup {"shrink_to_fit", "reserve", "resize", "concatenate"}) =>
          last'.undone = Reverse(last'.made)]_vars

\* C23: nextPowerOf2(n) is, for every n a size_t holds, the smallest power
\* of two that is >= n; nextPowerOf2(0) = nextPowerOf2(1) = 1.
C23_NextPowerOf2 ==
    [][last'.op = "nextPowerOf2" =>
          /\ last'.ret = next_pow2(last'.arg)
          /\ last'.arg <= 1 => last'.ret = 1]_vars

\* the least e with 2^e >= n
CeilLog2(n) == MinOf({e \in 0..MaxFill : 2 ^ e >= n})

\* C30: fillTrivial(dest, count, value) returns for every count; it leaves
\* dest[0, count) equal to value and every slot from count on untouched;
\* each memcpy reads only slots already filled; and it calls memcpy at most
\* 1 + ceil(log2(count)) times for count >= 1, and not at all for count 0.
C30_FillTrivial ==
    [][last'.op = "fillTrivial" =>
          LET count == last'.arg
              dest  == heap'[1].slots
          IN /\ fault' = "none"
             /\ \A j \in 1..Len(dest) :
                   dest[j] = IF j <= count THEN last'.val ELSE Raw
             /\ last'.ret <= (IF count = 0 THEN 0 ELSE 1 + CeilLog2(count))
      ]_vars

C30_Witness ==
    /\ last.op = "fillTrivial" /\ last.arg = 6 /\ last.val = 2
    /\ heap[1].slots = <<2, 2, 2, 2, 2, 2, Raw, Raw>>
    /\ last.ret = 4

\* C22: a dynamicArray that was moved from, by the move constructor or by
\* move assignment, is as a default-constructed one: length 0, capacity 1,
\* and a one-slot buffer of its own allocated by the call.
C22_MovedFromIsDefault ==
    [][(last'.op \in {"dynamicArray_move", "dynamicArray_move_assign"}
        /\ last'.who # last'.other /\ last'.res = "ok") =>
          LET src == vec'[last'.other]
          IN /\ src.len = 0
             /\ src.cap = 1
             /\ Live(heap', src.arr)
             /\ heap'[src.arr].fresh
             /\ Len(heap'[src.arr].slots) = 1
             /\ src.arr # vec'[last'.who].arr
      ]_vars

\* C28: when dynamicArray::concatenate has to reallocate, the reallocation
\* moves the elements [0, length before the call) of the old buffer and
\* no other slot; in particular it reads nothing outside the old buffer.
C28_ConcatenateMovesOldElements ==
    [][(last'.op = "dynamicArray_concatenate" /\ last'.res # "bad_alloc"
        /\ vec[last'.other].len > 0
        /\ (vec[last'.who].len + vec[last'.other].len) % Word > vec[last'.who].cap) =>
          /\ last'.made = Span("newArr", 0, vec[last'.who].len)
          /\ fault' = "none"
      ]_vars

\* C29: append on a moved-from dynamicArray (length 0, capacity 0, null
\* buffer), unless the allocation fails, writes only inside its storage and
\* leaves length 1, capacity 1 and element 0 equal to the value appended.
C29_AppendToMovedFrom ==
    [][(last'.op = "dynamicArray_append" /\ last'.res # "bad_alloc"
        /\ vec[last'.who].len = 0 /\ vec[last'.who].cap = 0
        /\ vec[last'.who].arr = nullptr) =>
          LET me == vec'[last'.who]
          IN /\ fault' = "none"
             /\ me.len = 1
             /\ me.cap = 1
             /\ Peek(heap', me.arr, 0) = last'.val
      ]_vars
====
